---- MODULE Spec2Model ----
(***************************************************************************)
(* gabays/layout_change: two batch scripts over a corpus of JSON layout    *)
(* records.                                                                *)
(*   zones_count.py  ("trend script"): per document, averages of zone and  *)
(*       token counts per page; one data point per document and metric;    *)
(*       polynomial smoothing; one chart.                                  *)
(*   create_types.py ("overlay script"): pages grouped by century and      *)
(*       orientation; one overlay figure per non-empty group.              *)
(*                                                                         *)
(* Python values are represented as follows.                               *)
(*   None                    <<>>   (where the other values are tuples)    *)
(*   int | float             a reduced fraction <<num, den>>, den > 0,     *)
(*                           wherever the code produces halves or means    *)
(*   str that is inspected   a sequence of one-character strings           *)
(*   dict (a JSON object)    a record whose DOMAIN is the set of keys      *)
(*                           present; d.get(k, default) is Get(d,k,default)*)
(*   a raw start_year        [int |-> n] | [str |-> chars] | [none |-> TRUE]*)
(***************************************************************************)
EXTENDS Integers, Sequences, FiniteSets, Bags, TLC

VARIABLES
    script,          \* which of the two programs this run is
    all_files,       \* the list returned by list_all_json_files(BASE_DIR)
    idx,             \* number of entries of all_files the file loop has consumed
    pc,              \* position of the main script
    error,           \* the exception that ended the run, "" while there is none
    data_main, data_margin, data_graphic, data_total, data_tokens,
    df,              \* df_main .. df_tokens of zones_count.py, by metric
    y_smooth,        \* y_main_smooth .. y_tokens_smooth, by metric
    century_pages,   \* create_types.py: the defaultdict, in insertion order
    century_idx,     \* create_types.py step 2: position in century_pages.keys()
    orientation_idx, \* create_types.py step 2: position in ["portrait","landscape"]
    fig,             \* create_types.py step 2: the figure of the last group drawn
    saved            \* files written by plt.savefig, in order

vars == << script, all_files, idx, pc, error,
           data_main, data_margin, data_graphic, data_total, data_tokens,
           df, y_smooth, century_pages, century_idx, orientation_idx, fig, saved >>

-----------------------------------------------------------------------------
(* Bounds of the model *)

MaxYearLen == 3   \* longest generated start_year string
MaxZones == 2     \* most zones on a page of the single-page corpora
MaxFiles == 2     \* most files in a multi-file corpus
MaxPages == 2     \* most page entries in a multi-file corpus, all files together

-----------------------------------------------------------------------------
(* Python values *)

None == <<>>

Get(d, k, default) == IF k \in DOMAIN d THEN d[k] ELSE default

RECURSIVE Gcd(_, _)
Gcd(a, b) == IF b = 0 THEN a ELSE Gcd(b, a % b)

Abs(n) == IF n < 0 THEN -n ELSE n

\* The fraction n/d (d # 0) in lowest terms with a positive denominator.
Frac(n, d) ==
    LET g == Gcd(Abs(n), Abs(d))
        s == IF d < 0 THEN -1 ELSE 1
    IN  << s * (n \div g), s * (d \div g) >>

Num(n) == << n, 1 >>
RAdd(a, b) == Frac(a[1] * b[2] + b[1] * a[2], a[2] * b[2])
RMul(a, b) == Frac(a[1] * b[1], a[2] * b[2])
RDiv(a, b) == Frac(a[1] * b[2], a[2] * b[1])
RLess(a, b) == a[1] * b[2] < b[1] * a[2]
RNeg(a) == << -a[1], a[2] >>
Half == << 1, 2 >>

RECURSIVE RSum(_)
RSum(s) == IF s = << >> THEN Num(0) ELSE RAdd(Head(s), RSum(Tail(s)))

-----------------------------------------------------------------------------
(* str(), str.strip(), re.match(r"(\d+)"), int() *)

Digits == << "0", "1", "2", "3", "4", "5", "6", "7", "8", "9" >>
IsDigit(c) == \E i \in 1..10 : Digits[i] = c
DigitValue(c) == (CHOOSE i \in 1..10 : Digits[i] = c) - 1
IsSpace(c) == c \in { " ", "\t", "\n" }
\* \w, over the characters the inputs use
IsWord(c) == IsDigit(c) \/ c \in { "a", "b", "h", "t", "_" }

RECURSIVE NatStr(_)
NatStr(n) == IF n < 10 THEN << Digits[n + 1] >>
             ELSE NatStr(n \div 10) \o << Digits[(n % 10) + 1] >>

\* str(year_raw) for an int or a str
PyStr(v) == IF "str" \in DOMAIN v THEN v.str
            ELSE IF v.int < 0 THEN << "-" >> \o NatStr(-v.int)
            ELSE NatStr(v.int)

RECURSIVE LStrip(_)
LStrip(s) == IF s # << >> /\ IsSpace(Head(s)) THEN LStrip(Tail(s)) ELSE s

RECURSIVE RStrip(_)
RStrip(s) == IF s # << >> /\ IsSpace(s[Len(s)])
             THEN RStrip(SubSeq(s, 1, Len(s) - 1)) ELSE s

Strip(s) == RStrip(LStrip(s))

\* group(1) of re.match(r"(\d+)", s): the leading run of digits, << >> for no match
RECURSIVE MatchDigits(_)
MatchDigits(s) == IF s # << >> /\ IsDigit(Head(s))
                  THEN << Head(s) >> \o MatchDigits(Tail(s)) ELSE << >>

RECURSIVE ParseInt(_)
ParseInt(ds) == IF ds = << >> THEN 0
                ELSE 10 * ParseInt(SubSeq(ds, 1, Len(ds) - 1)) + DigitValue(ds[Len(ds)])

\* year_to_century with the short-year test off by one (year <= 100)
year_to_century_le100(year_raw) ==
    IF "none" \in DOMAIN year_raw THEN None
    ELSE LET m == MatchDigits(Strip(PyStr(year_raw)))
         IN  IF m # << >>
             THEN (IF ParseInt(m) <= 100 THEN << ParseInt(m) + 1 >>
                   ELSE << (ParseInt(m) \div 100) + 1 >>)
             ELSE None

\* year_to_century: None, or << century >>
year_to_century(year_raw) ==
    IF "none" \in DOMAIN year_raw THEN None
    ELSE LET s == Strip(PyStr(year_raw))
             m == MatchDigits(s)
         IN  IF m # << >>
             THEN LET year == ParseInt(m)
                  IN  IF year < 100 THEN << year + 1 >>
                      ELSE << (year \div 100) + 1 >>
             ELSE None

-----------------------------------------------------------------------------
(* zones_count.py: tokenize and process_json_file *)

\* re.findall(r"\w+", text): the maximal runs of word characters
RECURSIVE FindWords(_, _)
FindWords(text, run) ==
    IF text = << >> THEN (IF run = << >> THEN << >> ELSE << run >>)
    ELSE IF IsWord(Head(text)) THEN FindWords(Tail(text), Append(run, Head(text)))
    ELSE (IF run = << >> THEN << >> ELSE << run >>) \o FindWords(Tail(text), << >>)

tokenize(text) == IF text = << >> THEN << >> ELSE FindWords(text, << >>)

\* z.get("type"), with None shown as the string "None"
ZoneType(z) == Get(z, "type", "None")

\* sum(1 for z in zones if z.get("type") == t)
CountType(zones, t) == Cardinality({ i \in 1..Len(zones) : ZoneType(zones[i]) = t })

RECURSIVE LineTokens(_)
LineTokens(lines) ==
    IF lines = << >> THEN 0
    ELSE Len(tokenize(Get(Head(lines), "content", << >>))) + LineTokens(Tail(lines))

RECURSIVE ZoneTokens(_)
ZoneTokens(zones) ==
    IF zones = << >> THEN 0
    ELSE LineTokens(Get(Head(zones), "lines", << >>)) + ZoneTokens(Tail(zones))

\* IsHalved with >= for >
IsHalved_ge(file_entry) ==
    LET wh == Get(file_entry, "wh", << >>)
    IN  Len(wh) = 2 /\ wh[1] >= wh[2]

\* wh = file_entry.get("wh", []); len(wh) == 2 and wh[0] > wh[1]
IsHalved(file_entry) ==
    LET wh == Get(file_entry, "wh", << >>)
    IN  Len(wh) = 2 /\ wh[1] > wh[2]

\* the per-page counts after the halving of lines 107-115
PageCounts(file_entry) ==
    LET zones == Get(file_entry, "zones", << >>)
        f == IF IsHalved(file_entry) THEN Half ELSE Num(1)
    IN  [ main_count    |-> RMul(Num(CountType(zones, "MainZone")), f),
          margin_count  |-> RMul(Num(CountType(zones, "MarginTextZone")), f),
          graphic_count |-> RMul(Num(CountType(zones, "GraphicZone")), f),
          drop_count    |-> RMul(Num(CountType(zones, "DropCapitalZone")), f),
          any_count     |-> RMul(Num(Len(zones)), f),
          token_count   |-> RMul(Num(ZoneTokens(zones)), f) ]

\* the per-file counters of lines 89-90
Counters0 ==
    [ files_with_main |-> 0, files_with_margin |-> 0, files_with_any |-> 0,
      files_with_graphic |-> 0, files_with_drop |-> 0, files_with_tokens |-> 0,
      total_main |-> Num(0), total_margin |-> Num(0), total_graphic |-> Num(0),
      total_any |-> Num(0), total_tokens |-> Num(0) ]

\* The additions of lines 119-134, made when the page entry counts.
AddPage(acc, c) ==
    LET total == RAdd(RAdd(c.main_count, c.margin_count),
                      RAdd(c.graphic_count, c.drop_count))
    IN  [ acc EXCEPT
            !.files_with_main = @ + 1,    !.total_main = RAdd(@, c.main_count),
            !.files_with_margin = @ + 1,  !.total_margin = RAdd(@, c.margin_count),
            !.files_with_graphic = @ + 1, !.total_graphic = RAdd(@, c.graphic_count),
            !.files_with_any = @ + 1,     !.total_any = RAdd(@, total),
            !.files_with_tokens = @ + 1,  !.total_tokens = RAdd(@, c.token_count) ]

\* PageStep with the denominators counting every page entry
PageStep_countall(acc, file_entry) ==
    LET c == PageCounts(file_entry)
    IN  IF RLess(Num(0), c.main_count) THEN AddPage(acc, c)
        ELSE [ acc EXCEPT !.files_with_main = @ + 1, !.files_with_margin = @ + 1,
                          !.files_with_graphic = @ + 1, !.files_with_any = @ + 1,
                          !.files_with_tokens = @ + 1 ]

\* PageStep gated on the page having any zone (any_count > 0)
PageStep_anygate(acc, file_entry) ==
    LET c == PageCounts(file_entry)
    IN  IF RLess(Num(0), c.any_count) THEN AddPage(acc, c) ELSE acc

\* one iteration of the page loop, lines 92-134: the five blocks of lines
\* 119-134 have the same test
PageStep(acc, file_entry) ==
    LET c == PageCounts(file_entry)
    IN  IF RLess(Num(0), c.main_count) THEN AddPage(acc, c) ELSE acc

RECURSIVE PageLoop(_, _)
PageLoop(acc, entries) ==
    IF entries = << >> THEN acc
    ELSE PageLoop(PageStep(acc, Head(entries)), Tail(entries))

\* total / count if count > 0 else None
Avg(total, count) == IF count > 0 THEN RDiv(total, Num(count)) ELSE None

\* lines 83-142: the body of process_json_file once the document is loaded
process_doc(doc) ==
    LET century == year_to_century(Get(doc, "start_year", [none |-> TRUE]))
    IN  IF century = None THEN None
        ELSE LET a == PageLoop(Counters0, Get(doc, "files", << >>))
             IN  << century[1],
                    Avg(a.total_main, a.files_with_main),
                    Avg(a.total_margin, a.files_with_margin),
                    Avg(a.total_graphic, a.files_with_graphic),
                    Avg(a.total_any, a.files_with_any),
                    Avg(a.total_tokens, a.files_with_tokens) >>

\* What a call yields when an exception leaves it.
Raised == << "exception" >>

\* process_json_file without the try/except: the exception leaves the call
process_json_file_nocatch(filepath) ==
    IF ~filepath.readable THEN Raised ELSE process_doc(filepath.doc)

\* lines 76-81: open + json.load; a file on disk is [readable |-> FALSE] when
\* either raises, and [readable |-> TRUE, doc |-> d] otherwise
process_json_file(filepath) ==
    IF ~filepath.readable THEN None ELSE process_doc(filepath.doc)

\* AppendPoint keeping one point per century: a later point of a century
\* replaces the earlier one
AppendPoint_keyed(data, century, avg) ==
    IF avg = None THEN data
    ELSE IF \E i \in 1..Len(data) : data[i][1] = century
    THEN [ i \in 1..Len(data) |->
             IF data[i][1] = century THEN << century, avg >> ELSE data[i] ]
    ELSE Append(data, << century, avg >>)

\* if avg is not None: data.append((century, avg))
AppendPoint(data, century, avg) ==
    IF avg # None THEN Append(data, << century, avg >>) ELSE data

\* The metrics, in the order the script treats them.
Metrics == << "main", "margin", "graphic", "total", "tokens" >>

\* the column "century" of a list of points
CenturyColumn(data) == [ i \in 1..Len(data) |-> data[i][1] ]

\* The permutations p of 1..Len(keys) that put keys in ascending order.
\* sort_values uses an unstable sort: the order of equal keys is the
\* algorithm's, the same for equal key columns.
SortingPerms(keys) ==
    { p \in [1..Len(keys) -> 1..Len(keys)] :
        /\ \A i, j \in 1..Len(keys) : i # j => p[i] # p[j]
        /\ \A i, j \in 1..Len(keys) : i < j => keys[p[i]] <= keys[p[j]] }

\* DataFrame(data).sort_values("century").reset_index(drop=True) under p
SortValues(data, p) == [ i \in 1..Len(data) |-> data[p[i]] ]

\* the second column of a list of points
ValueColumn(data) == [ i \in 1..Len(data) |-> data[i][2] ]

\* np.polyfit(x, y, deg) raises TypeError("expected non-empty vector for x")
\* on an empty x
PolyfitRaises(x) == Len(x) = 0

\* polynomial_smooth(x, y) when polyfit returns: the fitted polynomial
\* evaluated at every x, kept as the term poly(x[i])
polynomial_smooth(x, y) ==
    [ i \in 1..Len(x) |-> [ fit |-> << x, y >>, at |-> x[i] ] ]

POLY_DEGREE == 6
SAVE_CSV == FALSE

-----------------------------------------------------------------------------
(* create_types.py: configuration and step 1 *)

ZONE_COLORS ==
    [ MainZone |-> "blue", MarginTextZone |-> "green", DropCapitalZone |-> "red",
      DefaultLine |-> "purple", Other |-> "gray" ]

ALPHA_MAX == << 3, 10 >>     \* 0.3
LW_MAX == << 1, 1 >>         \* 1.0
LW_MIN == << 1, 10000 >>     \* 0.0001
EXP_COEFF == << 2, 1 >>      \* 2.0

Orientations == << "portrait", "landscape" >>

\* the test of line 95, negated: the page entry is kept
PageKept(wh_page) == ~(Len(wh_page) # 2 \/ wh_page[1] = 0 \/ wh_page[2] = 0)

\* line 99
Orientation(wh_page) == IF wh_page[1] > wh_page[2] THEN "landscape" ELSE "portrait"

\* lines 102-116: the zones of a page that pass the validation
RECURSIVE PageZones(_)
PageZones(zones) ==
    IF zones = << >> THEN << >>
    ELSE LET zone == Head(zones)
             xy == Get(zone, "xy", << 0, 0 >>)
             wh == Get(zone, "wh", << 0, 0 >>)
             ztype == Get(zone, "type", "Other")
         IN  (IF Len(xy) = 2 /\ Len(wh) = 2 /\ wh[1] > 0 /\ wh[2] > 0
              THEN << [ x |-> xy[1], y |-> xy[2], w |-> wh[1], h |-> wh[2],
                        type |-> ztype ] >>
              ELSE << >>)
             \o PageZones(Tail(zones))

\* The defaultdict century_pages is the sequence of its items in insertion
\* order, each [century, portrait, landscape]. KeyIndex is 0 for a missing key.
KeyIndex(cp, century) ==
    IF \E i \in 1..Len(cp) : cp[i].century = century
    THEN CHOOSE i \in 1..Len(cp) : cp[i].century = century
    ELSE 0

\* century_pages[century][orientation].append(page)
AppendPage(cp, century, orientation, page) ==
    LET k == KeyIndex(cp, century)
        base == IF k = 0
                THEN Append(cp, [ century |-> century, portrait |-> << >>,
                                  landscape |-> << >> ])
                ELSE cp
        j == IF k = 0 THEN Len(base) ELSE k
    IN  [ base EXCEPT ![j][orientation] = Append(@, page) ]

\* lines 93-123 for one page entry
CollectPage(cp, century, file_entry) ==
    LET wh_page == Get(file_entry, "wh", << 1000, 1000 >>)
    IN  IF ~PageKept(wh_page) THEN cp
        ELSE LET page_zones == PageZones(Get(file_entry, "zones", << >>))
             IN  IF page_zones # << >>
                 THEN AppendPage(cp, century, Orientation(wh_page),
                                 [ page_wh |-> wh_page, zones |-> page_zones ])
                 ELSE cp

RECURSIVE CollectPages(_, _, _)
CollectPages(cp, century, entries) ==
    IF entries = << >> THEN cp
    ELSE CollectPages(CollectPage(cp, century, Head(entries)), century, Tail(entries))

\* lines 79-123 for one file: the body of the file loop
CollectFile(cp, filepath) ==
    IF ~filepath.readable THEN cp
    ELSE LET doc == filepath.doc
             century == year_to_century(Get(doc, "start_year", [none |-> TRUE]))
         IN  IF century = None THEN cp
             ELSE CollectPages(cp, century[1], Get(doc, "files", << >>))

-----------------------------------------------------------------------------
(* create_types.py: step 2 *)

\* np.mean
Mean(s) == RDiv(RSum(s), Num(Len(s)))

\* the z["type"] of every zone of every page, in drawing order
RECURSIVE AllTypes(_)
AllTypes(pages) ==
    IF pages = << >> THEN << >>
    ELSE [ i \in 1..Len(Head(pages).zones) |-> Head(pages).zones[i].type ]
         \o AllTypes(Tail(pages))

\* Counter(z["type"] for p in pages for z in p["zones"])
ZoneTypeCounts(pages) ==
    LET ts == AllTypes(pages)
    IN  [ t \in { ts[i] : i \in 1..Len(ts) } |->
            Cardinality({ i \in 1..Len(ts) : ts[i] = t }) ]

\* Counter.__getitem__: 0 for a missing key
CounterGet(counts, t) == IF t \in DOMAIN counts THEN counts[t] ELSE 0

\* MaxCount as the number of zone types (len for max)
MaxCount_len(counts) ==
    IF DOMAIN counts # {} THEN Cardinality(DOMAIN counts) ELSE 1

\* max(zone_type_counts.values()) if zone_type_counts else 1
MaxCount(counts) ==
    IF DOMAIN counts # {}
    THEN CHOOSE m \in { counts[t] : t \in DOMAIN counts } :
            \A t \in DOMAIN counts : counts[t] <= m
    ELSE 1

\* -EXP_COEFF * freq / max_count, the argument of math.exp
DecayExponent(freq, max_count) ==
    RDiv(RMul(RNeg(EXP_COEFF), Num(freq)), Num(max_count))

\* lines 157-182 for one zone of one page: the rectangle added to the axes.
\* exp is kept as a term: coef * exp(arg).
Patch(z, scale_x, scale_y, counts, max_count) ==
    LET freq == CounterGet(counts, z.type)
        e == DecayExponent(freq, max_count)
    IN  [ rect_x |-> RMul(Num(z.x), scale_x), rect_y |-> RMul(Num(z.y), scale_y),
          rect_w |-> RMul(Num(z.w), scale_x), rect_h |-> RMul(Num(z.h), scale_y),
          zone_type |-> z.type,
          freq |-> freq,
          alpha |-> [ coef |-> ALPHA_MAX, arg |-> e ],
          linewidth |-> [ max_of |-> << LW_MIN, [ coef |-> LW_MAX, arg |-> e ] >> ],
          edgecolor |-> Get(ZONE_COLORS, z.type, "gray") ]

\* lines 152-182: the rectangles of a group, page by page
RECURSIVE Patches(_, _, _, _, _)
Patches(pages, avg_w, avg_h, counts, max_count) ==
    IF pages = << >> THEN << >>
    ELSE LET page == Head(pages)
             scale_x == RDiv(avg_w, Num(page.page_wh[1]))
             scale_y == RDiv(avg_h, Num(page.page_wh[2]))
         IN  [ i \in 1..Len(page.zones) |->
                 Patch(page.zones[i], scale_x, scale_y, counts, max_count) ]
             \o Patches(Tail(pages), avg_w, avg_h, counts, max_count)

\* lines 135-187: the figure of one non-empty group
Figure(century, orientation, pages) ==
    LET avg_w == Mean([ i \in 1..Len(pages) |-> Num(pages[i].page_wh[1]) ])
        avg_h == Mean([ i \in 1..Len(pages) |-> Num(pages[i].page_wh[2]) ])
        zone_type_counts == ZoneTypeCounts(pages)
        max_count == MaxCount(zone_type_counts)
    IN  [ century |-> century, orientation |-> orientation,
          avg_w |-> avg_w, avg_h |-> avg_h,
          zone_type_counts |-> zone_type_counts, max_count |-> max_count,
          patches |-> Patches(pages, avg_w, avg_h, zone_type_counts, max_count) ]

\* plt.subplots(figsize=(avg_w/200, avg_h/200)) raises ValueError for a
\* negative size
FigsizeAccepted(avg_w, avg_h) == ~RLess(avg_w, Num(0)) /\ ~RLess(avg_h, Num(0))

NoFigure == [ century |-> 0 ]

-----------------------------------------------------------------------------
(* The corpora: what the directory tree under BASE_DIR may hold *)

SeqsUpTo(S, n) == UNION { [1..k -> S] : k \in 0..n }

Scripts == { "zones_count", "create_types" }

File(doc) == [ readable |-> TRUE, doc |-> doc ]
Unreadable == [ readable |-> FALSE ]

MainZ == [ type |-> "MainZone", xy |-> << 1, 1 >>, wh |-> << 2, 3 >>,
           lines |-> << [ content |-> << "a", " ", "b" >> ] >> ]
MarginZ == [ type |-> "MarginTextZone", xy |-> << 0, 1 >>, wh |-> << 1, 1 >>,
             lines |-> << [ content |-> << "t", "." >> ] >> ]

PageA == [ wh |-> << 2, 3 >>, zones |-> << MainZ, MainZ, MarginZ >> ]
PageB == [ wh |-> << 4, 2 >>, zones |-> << MainZ, MarginZ >> ]
PageC == [ wh |-> << 2, 3 >>, zones |-> << MarginZ >> ]

\* start_year values: every string over YearAlphabet up to MaxYearLen, the
\* spec's examples, some numbers, null
YearAlphabet == { " ", "0", "1", "9", "t", "-" }
YearInputs ==
    { [ str |-> s ] : s \in SeqsUpTo(YearAlphabet, MaxYearLen) }
    \cup { [ str |-> << "1", "2", "t", "h" >> ], [ none |-> TRUE ] }
    \cup { [ int |-> n ] : n \in { -5, 0, 12, 99, 100, 843, 1999 } }

\* One document with one fixed page and any start_year, or none.
YearCorpora ==
    { << File([ start_year |-> y, files |-> << PageA >> ]) >> : y \in YearInputs }
    \cup { << File([ files |-> << PageA >> ]) >> }

\* Zones of the single-page corpora: what each script reads of a zone.
TrendLines == << [ content |-> << "a", " ", "b" >> ], [ content |-> << "t", "." >> ],
                 [ id |-> "l3" ] >>
TrendTypes == { "MainZone", "MarginTextZone", "GraphicZone", "DropCapitalZone",
                "DefaultLine" }
TrendZones ==
    { [ type |-> t ] : t \in TrendTypes }
    \cup { [ type |-> t, lines |-> TrendLines ] : t \in TrendTypes }
    \cup { [ id |-> "z" ], [ lines |-> TrendLines ] }

OverlayTypes == { "MainZone", "MarginTextZone" }
OverlayZones ==
    { [ type |-> t, xy |-> << 1, 1 >>, wh |-> w ] :
        t \in OverlayTypes, w \in { << 2, 3 >>, << 0, 3 >> } }
    \cup { [ type |-> t, xy |-> << 1 >>, wh |-> << 2, 3 >> ] : t \in OverlayTypes }
    \cup { [ type |-> t, xy |-> << 1, 1 >> ] : t \in OverlayTypes }
    \cup { [ xy |-> << 1, 1 >>, wh |-> w ] : w \in { << 2, 3 >>, << 0, 3 >> } }
    \cup { [ xy |-> << 1 >>, wh |-> << 2, 3 >> ], [ xy |-> << 1, 1 >> ] }

WhChoices == { << >>, << 3, 2 >>, << 2, 3 >>, << 2, 2 >>, << 0, 2 >>, << -2, 3 >>,
               << 3, 2, 1 >> }

PagesOver(Z) ==
    { [ zones |-> zs ] : zs \in SeqsUpTo(Z, MaxZones) }
    \cup { [ zones |-> zs, wh |-> w ] : zs \in SeqsUpTo(Z, MaxZones), w \in WhChoices }

\* One document of century 9 with one page entry.
PageCorpora(s) ==
    { << File([ start_year |-> [ int |-> 843 ], files |-> << pg >> ]) >> :
        pg \in PagesOver(IF s = "zones_count" THEN TrendZones ELSE OverlayZones) }

\* A multi-file corpus: up to MaxFiles files holding up to MaxPages page
\* entries in all. A file is unreadable, or a document of century 9 or 13
\* with any pages of CorpusPages, or a document without start_year.
CorpusYears == { [ int |-> 843 ], [ str |-> << "1", "2", "t", "h" >> ] }
CorpusPages == { PageA, PageB, PageC }

FilesWith(k) ==
    { File([ start_year |-> y, files |-> ps ]) :
        y \in CorpusYears, ps \in [ 1..k -> CorpusPages ] }
    \cup { File([ files |-> ps ]) : ps \in [ 1..k -> { PageA } ] }
    \cup (IF k = 0 THEN { Unreadable } ELSE {})

RECURSIVE CorporaOf(_, _)
CorporaOf(n, pages) ==
    IF n = 0 THEN { << >> }
    ELSE UNION { { << f >> \o rest : f \in FilesWith(k),
                                     rest \in CorporaOf(n - 1, pages - k) } :
                 k \in 0..pages }

Corpora == UNION { CorporaOf(n, MaxPages) : n \in 0..MaxFiles }

-----------------------------------------------------------------------------
(* The main scripts *)

MetricSet == { Metrics[i] : i \in 1..Len(Metrics) }

\* The start of a run of either script over one of the corpora.
InitOver(corpora) ==
    /\ script \in Scripts
    /\ all_files \in corpora[script]
    /\ idx = 0
    /\ pc = "loop"
    /\ error = ""
    /\ data_main = << >> /\ data_margin = << >> /\ data_graphic = << >>
    /\ data_total = << >> /\ data_tokens = << >>
    /\ df = [ m \in MetricSet |-> << >> ]
    /\ y_smooth = [ m \in MetricSet |-> << >> ]
    /\ century_pages = << >>
    /\ century_idx = 1
    /\ orientation_idx = 1
    /\ fig = NoFigure
    /\ saved = << >>

Init == InitOver([ s \in Scripts |-> Corpora ])
InitPage == InitOver([ s \in Scripts |-> PageCorpora(s) ])
InitYear == InitOver([ s \in Scripts |-> YearCorpora ])

overlay_vars == << century_pages, century_idx, orientation_idx, fig >>
data_vars == << data_main, data_margin, data_graphic, data_total, data_tokens >>

\* zones_count.py lines 166-174: one iteration of the file loop
TrendFile ==
    /\ script = "zones_count" /\ pc = "loop" /\ idx < Len(all_files)
    /\ LET result == process_json_file(all_files[idx + 1])
       IN  IF Len(result) = 1
           THEN /\ pc' = "crashed" /\ error' = result[1]
                /\ UNCHANGED << idx, data_vars >>
           ELSE /\ idx' = idx + 1
                /\ UNCHANGED << pc, error >>
                /\ IF result # None
                   THEN /\ data_main' = AppendPoint(data_main, result[1], result[2])
                        /\ data_margin' = AppendPoint(data_margin, result[1], result[3])
                        /\ data_graphic' = AppendPoint(data_graphic, result[1], result[4])
                        /\ data_total' = AppendPoint(data_total, result[1], result[5])
                        /\ data_tokens' = AppendPoint(data_tokens, result[1], result[6])
                   ELSE UNCHANGED data_vars
    /\ UNCHANGED << script, all_files, df, y_smooth, overlay_vars, saved >>

\* the data lists, by metric
Data == [ m \in MetricSet |->
            CASE m = "main" -> data_main [] m = "margin" -> data_margin
              [] m = "graphic" -> data_graphic [] m = "total" -> data_total
              [] OTHER -> data_tokens ]

\* zones_count.py lines 177-181 (step 3). Equal key columns are sorted by the
\* same permutation.
TrendSort ==
    /\ script = "zones_count" /\ pc = "loop" /\ idx = Len(all_files)
    /\ \E sigma \in [ MetricSet -> UNION { SortingPerms(CenturyColumn(Data[m])) :
                                            m \in MetricSet } ] :
          /\ \A m \in MetricSet : sigma[m] \in SortingPerms(CenturyColumn(Data[m]))
          /\ \A m, n \in MetricSet :
                CenturyColumn(Data[m]) = CenturyColumn(Data[n]) => sigma[m] = sigma[n]
          /\ df' = [ m \in MetricSet |-> SortValues(Data[m], sigma[m]) ]
    /\ pc' = "csv"
    /\ UNCHANGED << script, all_files, idx, error, data_vars, y_smooth,
                    overlay_vars, saved >>

\* zones_count.py lines 184-192 (step 4)
TrendCsv ==
    /\ script = "zones_count" /\ pc = "csv"
    /\ saved' = IF SAVE_CSV THEN Append(saved, "data.csv") ELSE saved
    /\ pc' = "smooth"
    /\ UNCHANGED << script, all_files, idx, error, data_vars, df, y_smooth,
                    overlay_vars >>

\* zones_count.py lines 195-199 (step 5): five calls in order; the first
\* that raises ends the run
TrendSmooth ==
    /\ script = "zones_count" /\ pc = "smooth"
    /\ LET raising == { i \in 1..Len(Metrics) :
                          PolyfitRaises(CenturyColumn(df[Metrics[i]])) }
           first == IF raising = {} THEN Len(Metrics) + 1
                    ELSE CHOOSE i \in raising : \A j \in raising : i <= j
       IN  /\ y_smooth' = [ m \in MetricSet |->
                IF \E i \in 1..(first - 1) : Metrics[i] = m
                THEN polynomial_smooth(CenturyColumn(df[m]), ValueColumn(df[m]))
                ELSE << >> ]
           /\ IF raising = {}
              THEN pc' = "plot" /\ error' = error
              ELSE pc' = "crashed" /\ error' = "TypeError"
    /\ UNCHANGED << script, all_files, idx, data_vars, df, overlay_vars, saved >>

\* zones_count.py lines 202-229 (step 6)
TrendPlot ==
    /\ script = "zones_count" /\ pc = "plot"
    /\ saved' = Append(saved, "graph.pdf")
    /\ pc' = "done"
    /\ UNCHANGED << script, all_files, idx, error, data_vars, df, y_smooth,
                    overlay_vars >>

\* create_types.py lines 79-123: one iteration of the file loop
OverlayFile ==
    /\ script = "create_types" /\ pc = "loop" /\ idx < Len(all_files)
    /\ century_pages' = CollectFile(century_pages, all_files[idx + 1])
    /\ idx' = idx + 1
    /\ UNCHANGED << script, all_files, pc, error, data_vars, df, y_smooth,
                    century_idx, orientation_idx, fig, saved >>

\* create_types.py line 129: the loop over century_pages.keys() starts
OverlayStartRender ==
    /\ script = "create_types" /\ pc = "loop" /\ idx = Len(all_files)
    /\ pc' = "render"
    /\ UNCHANGED << script, all_files, idx, error, data_vars, df, y_smooth,
                    overlay_vars, saved >>

NextGroup ==
    /\ orientation_idx' = IF orientation_idx = Len(Orientations) THEN 1
                          ELSE orientation_idx + 1
    /\ century_idx' = IF orientation_idx = Len(Orientations) THEN century_idx + 1
                      ELSE century_idx

\* create_types.py lines 131-133: an empty group is passed over
OverlaySkipGroup ==
    /\ script = "create_types" /\ pc = "render" /\ century_idx <= Len(century_pages)
    /\ century_pages[century_idx][Orientations[orientation_idx]] = << >>
    /\ NextGroup
    /\ UNCHANGED << script, all_files, idx, pc, error, data_vars, df, y_smooth,
                    century_pages, fig, saved >>

\* create_types.py lines 131-193: a non-empty group is drawn and saved
OverlayDrawGroup ==
    /\ script = "create_types" /\ pc = "render" /\ century_idx <= Len(century_pages)
    /\ LET century == century_pages[century_idx].century
           orientation == Orientations[orientation_idx]
           pages == century_pages[century_idx][orientation]
           f == Figure(century, orientation, pages)
       IN  /\ pages # << >>
           /\ IF FigsizeAccepted(f.avg_w, f.avg_h)
              THEN /\ fig' = f
                   /\ saved' = Append(saved, << century, orientation >>)
                   /\ NextGroup
                   /\ UNCHANGED << pc, error >>
              ELSE /\ pc' = "crashed" /\ error' = "ValueError"
                   /\ UNCHANGED << century_idx, orientation_idx, fig, saved >>
    /\ UNCHANGED << script, all_files, idx, data_vars, df, y_smooth, century_pages >>

\* create_types.py: the loop over the keys is exhausted
OverlayDone ==
    /\ script = "create_types" /\ pc = "render" /\ century_idx > Len(century_pages)
    /\ pc' = "done"
    /\ UNCHANGED << script, all_files, idx, error, data_vars, df, y_smooth,
                    overlay_vars, saved >>

\* zones_count.py lines 160-174: the data lists after the file loop over files
RECURSIVE TrendRun(_, _)
TrendRun(d, files) ==
    IF files = << >> THEN d
    ELSE LET result == process_json_file(Head(files))
         IN  IF Len(result) # 6 THEN TrendRun(d, Tail(files))
             ELSE TrendRun([ main |-> AppendPoint(d.main, result[1], result[2]),
                             margin |-> AppendPoint(d.margin, result[1], result[3]),
                             graphic |-> AppendPoint(d.graphic, result[1], result[4]),
                             total |-> AppendPoint(d.total, result[1], result[5]),
                             tokens |-> AppendPoint(d.tokens, result[1], result[6]) ],
                           Tail(files))

\* create_types.py lines 72-123: century_pages after the file loop over files
RECURSIVE OverlayRun(_, _)
OverlayRun(cp, files) ==
    IF files = << >> THEN cp
    ELSE OverlayRun(CollectFile(cp, Head(files)), Tail(files))

Next ==
    \/ TrendFile
    \/ TrendSort
    \/ TrendCsv
    \/ TrendSmooth
    \/ TrendPlot
    \/ OverlayFile
    \/ OverlayStartRender
    \/ OverlaySkipGroup
    \/ OverlayDrawGroup
    \/ OverlayDone

Spec == Init /\ [][Next]_vars
SpecPage == InitPage /\ [][Next]_vars
SpecYear == InitYear /\ [][Next]_vars

-----------------------------------------------------------------------------
(* Properties *)

\* The file loop has consumed every file.
LoopDone == idx = Len(all_files) /\ pc = "loop"

Trend == script = "zones_count"
Overlay == script = "create_types"

NoData == /\ data_main = << >> /\ data_margin = << >> /\ data_graphic = << >>
          /\ data_total = << >> /\ data_tokens = << >>

RECURSIVE Pow10(_)
Pow10(k) == IF k = 0 THEN 1 ELSE 10 * Pow10(k - 1)

\* The century the claim gives a raw start_year: d + 1 for leading digits
\* d < 100, d \div 100 + 1 for d >= 100, None without leading digits.
C1_Bucket(d) == IF d < 100 THEN d + 1 ELSE (d \div 100) + 1

C1_OfString(s) ==
    LET a == CHOOSE i \in 1..(Len(s) + 1) :
                /\ \A j \in 1..(i - 1) : IsSpace(s[j])
                /\ (i <= Len(s) => ~IsSpace(s[i]))
        k == CHOOSE n \in 0..(Len(s) + 1 - a) :
                /\ \A j \in a..(a + n - 1) : IsDigit(s[j])
                /\ (a + n <= Len(s) => ~IsDigit(s[a + n]))
        dsum[i \in 0..k] ==
            IF i = 0 THEN 0
            ELSE dsum[i - 1] + DigitValue(s[a + i - 1]) * Pow10(k - i)
    IN  IF k = 0 THEN None ELSE << C1_Bucket(dsum[k]) >>

C1_Expected(doc) ==
    IF "start_year" \notin DOMAIN doc THEN None
    ELSE LET y == doc.start_year
         IN  IF "none" \in DOMAIN y THEN None
             ELSE IF "int" \in DOMAIN y
             THEN (IF y.int < 0 THEN None ELSE << C1_Bucket(y.int) >>)
             ELSE C1_OfString(y.str)

\* C1: a document whose start_year has leading digits d (after stripping) is
\* filed under century d+1 when d < 100 and d \div 100 + 1 when d >= 100, in
\* both scripts; with no start_year, or one that does not begin with a digit,
\* the document contributes no data point and no page.
C1_YearToCentury ==
    (idx = 1 /\ Len(all_files) = 1 /\ all_files[1].readable) =>
        LET e == C1_Expected(all_files[1].doc)
        IN  /\ Trend =>
                IF e = None THEN NoData
                ELSE \A m \in MetricSet :
                        Len(Data[m]) = 1 /\ Data[m][1][1] = e[1]
            /\ Overlay =>
                IF e = None THEN century_pages = << >>
                ELSE /\ Len(century_pages) = 1
                     /\ century_pages[1].century = e[1]
                     /\ Len(century_pages[1].portrait) = 1

\* C1 witness: the string "12th" has been filed under century 13, and a
\* three-digit year under its century
C1_Witness ==
    /\ idx = 1 /\ Trend /\ data_main # << >>
    /\ "start_year" \in DOMAIN all_files[1].doc
    /\ \/ /\ all_files[1].doc.start_year = [ str |-> << "1", "2", "t", "h" >> ]
          /\ data_main[1][1] = 13
       \/ /\ all_files[1].doc.start_year = [ str |-> << " ", "1", "9" >> ]
          /\ data_main[1][1] = 20

-----------------------------------------------------------------------------
(* Single-page corpora (SpecPage) *)

\* The only page entry of a single-page corpus.
ThePage == all_files[1].doc.files[1]
OnePage == Len(all_files) = 1 /\ idx = 1 /\ pc # "crashed"

\* What the document of century 9 holding only page entry pg yields.
AloneResult(pg) == process_doc([ start_year |-> [ int |-> 843 ], files |-> << pg >> ])

Landscape(pg) == "wh" \in DOMAIN pg /\ Len(pg.wh) = 2 /\ pg.wh[1] > pg.wh[2]

\* The numbers of zones of each counted type, of all zones, and of tokens, as
\* a portrait page contributes them.
RawValue(pg, m) ==
    LET zs == pg.zones
        n(t) == Cardinality({ i \in 1..Len(zs) :
                                "type" \in DOMAIN zs[i] /\ zs[i].type = t })
    IN  CASE m = "main" -> n("MainZone")
          [] m = "margin" -> n("MarginTextZone")
          [] m = "graphic" -> n("GraphicZone")
          [] m = "total" -> n("MainZone") + n("MarginTextZone") + n("GraphicZone")
                            + n("DropCapitalZone")
          [] OTHER -> ZoneTokens(zs)

\* C2: a page entry with width > height contributes to every metric exactly
\* half of what the same page entry with width and height exchanged (width <
\* height) contributes; a page entry with width = height, with width <
\* height, without wh or with a wh that has not two elements contributes its
\* counts unhalved.
C2_LandscapeHalved ==
    (Trend /\ OnePage) =>
        LET pg == ThePage
        IN  IF Landscape(pg)
            THEN LET twin == AloneResult([ pg EXCEPT !.wh = << pg.wh[2], pg.wh[1] >> ])
                 IN  \A i \in 1..Len(Metrics) :
                        IF twin[i + 1] = None THEN Data[Metrics[i]] = << >>
                        ELSE /\ Len(Data[Metrics[i]]) = 1
                             /\ RMul(Num(2), Data[Metrics[i]][1][2]) = twin[i + 1]
            ELSE \A m \in MetricSet :
                    IF RawValue(pg, "main") = 0 THEN Data[m] = << >>
                    ELSE /\ Len(Data[m]) = 1
                         /\ Data[m][1][2] = Num(RawValue(pg, m))

\* C2 witness: a 3x2 page with one MainZone and three tokens has contributed
\* 1/2 and 3/2
C2_Witness ==
    /\ Trend /\ OnePage /\ Landscape(ThePage)
    /\ data_main = << << 9, << 1, 2 >> >> >>
    /\ data_tokens = << << 9, << 3, 2 >> >> >>

\* C9 (as claimed): the total-zone metric of a page with a MainZone is the
\* number of all its zones, halved for a landscape page.
C9_TotalIsLenZones ==
    (Trend /\ OnePage /\ data_total # << >>) =>
        data_total[1][2] = RMul(Num(Len(ThePage.zones)),
                                IF Landscape(ThePage) THEN Half ELSE Num(1))

\* C6 (as claimed): a page entry whose wh is not a pair of two strictly
\* positive numbers contributes nothing: no stored page in the overlay
\* script, no data point in the trend script.
InvalidWh(pg) ==
    "wh" \in DOMAIN pg /\ ~(Len(pg.wh) = 2 /\ pg.wh[1] > 0 /\ pg.wh[2] > 0)

C6_InvalidPageIgnored ==
    (OnePage /\ InvalidWh(ThePage)) =>
        /\ Overlay => century_pages = << >>
        /\ Trend => NoData

-----------------------------------------------------------------------------
(* Multi-file corpora (Spec) *)

EmptyData == [ m \in MetricSet |-> << >> ]

\* The files the loop has consumed.
Consumed == SubSeq(all_files, 1, idx)

\* The documents that were read and have a century, in file order.
RECURSIVE Dated(_)
Dated(files) ==
    IF files = << >> THEN << >>
    ELSE (IF Head(files).readable
             /\ "start_year" \in DOMAIN Head(files).doc
             /\ year_to_century(Head(files).doc.start_year) # None
          THEN << Head(files).doc >> ELSE << >>)
         \o Dated(Tail(files))

CenturyOf(doc) == year_to_century(doc.start_year)[1]

HasMainZone(pg) ==
    \E i \in 1..Len(pg.zones) :
        "type" \in DOMAIN pg.zones[i] /\ pg.zones[i].type = "MainZone"

\* The page entries of a document that hold a MainZone.
MainPages(doc) == SelectSeq(doc.files, HasMainZone)

\* What a page entry contributes to a metric.
PageValue(pg, m) ==
    RMul(Num(RawValue(pg, m)), IF Landscape(pg) THEN Half ELSE Num(1))

\* The mean of a metric over page entries.
MeanOver(pages, m) ==
    RDiv(RSum([ i \in 1..Len(pages) |-> PageValue(pages[i], m) ]), Num(Len(pages)))

RECURSIVE Flatten(_)
Flatten(ss) == IF ss = << >> THEN << >> ELSE Head(ss) \o Flatten(Tail(ss))

\* The MainZone-holding page entries of all the documents of a century.
BucketPages(docs, c) ==
    Flatten([ i \in 1..Len(docs) |->
                IF CenturyOf(docs[i]) = c THEN MainPages(docs[i]) ELSE << >> ])

Centuries(docs) == { CenturyOf(docs[i]) : i \in 1..Len(docs) }

RECURSIVE DocPoints(_, _)
DocPoints(docs, m) ==
    IF docs = << >> THEN << >>
    ELSE (IF MainPages(Head(docs)) # << >>
          THEN << << CenturyOf(Head(docs)), MeanOver(MainPages(Head(docs)), m) >> >>
          ELSE << >>)
         \o DocPoints(Tail(docs), m)

StripFile(f) ==
    IF f.readable /\ "files" \in DOMAIN f.doc
    THEN [ f EXCEPT !.doc.files = SelectSeq(@, HasMainZone) ]
    ELSE f

\* C4: a page entry without a MainZone changes no sum and no count (the data
\* lists are those of the corpus without such page entries), and a century
\* none of whose consumed documents has a MainZone-holding page has no point
\* in any series; no point of the MainZone series is zero.
C4_NoMainZoneNoPoint ==
    (Trend /\ pc = "loop") =>
        /\ Data = TrendRun(EmptyData, [ i \in 1..idx |-> StripFile(all_files[i]) ])
        /\ \A m \in MetricSet : \A i \in 1..Len(Data[m]) :
              BucketPages(Dated(Consumed), Data[m][i][1]) # << >>
        /\ \A i \in 1..Len(data_main) : RLess(Num(0), data_main[i][2])

\* C4 witness: the only document of century 9 has one page, without a
\* MainZone, and a document of century 13 a page with one: every series has
\* one point, of century 13
C4_Witness ==
    /\ Trend /\ LoopDone /\ Len(all_files) = 2
    /\ all_files[1] = File([ start_year |-> [ int |-> 843 ], files |-> << PageC >> ])
    /\ all_files[2] = File([ start_year |-> [ str |-> << "1", "2", "t", "h" >> ],
                             files |-> << PageA >> ])
    /\ \A m \in MetricSet : Len(Data[m]) = 1 /\ Data[m][1][1] = 13

\* The items of century_pages as a function of century and orientation.
PagesOf(cp, c, o) == IF KeyIndex(cp, c) = 0 THEN << >> ELSE cp[KeyIndex(cp, c)][o]

Readable(files) == SelectSeq(files, LAMBDA f : f.readable)

\* C5: an unreadable file does not end the run, and what the file loop has
\* accumulated is what it accumulates over the readable files alone.
C5_UnreadableSkipped ==
    /\ pc = "crashed" => idx = Len(all_files)
    /\ (Trend /\ pc = "loop") => Data = TrendRun(EmptyData, Readable(Consumed))
    /\ (Overlay /\ pc = "loop") => century_pages = OverlayRun(<< >>, Readable(Consumed))

\* C5 witness: the loop has passed an unreadable file and then taken a
\* document's data
C5_Witness ==
    /\ LoopDone /\ Len(all_files) = 2 /\ ~all_files[1].readable
    /\ (Trend /\ data_main # << >>) \/ (Overlay /\ century_pages # << >>)

\* C7 (as claimed): the trend script does not end with an error when a
\* series is empty at the smoothing step.
C7_EmptySeriesRecovered == Trend => pc # "crashed"

\* The number of rectangles of the figure drawn for the type of rectangle i.
TypeCount(f, i) ==
    Cardinality({ j \in 1..Len(f.patches) : f.patches[j].zone_type = f.patches[i].zone_type })

\* C8: in every figure drawn, freq of every rectangle is the number of zones
\* of its type in the group, 1 <= freq <= max_count, max_count is reached,
\* the argument of exp is -EXP_COEFF * freq / max_count in [-EXP_COEFF, 0),
\* and a rectangle with freq = max_count has alpha = ALPHA_MAX * exp(-EXP_COEFF)
\* and linewidth = max(LW_MIN, LW_MAX * exp(-EXP_COEFF)).
C8_DecayRatio ==
    (Overlay /\ fig # NoFigure) =>
        /\ \E i \in 1..Len(fig.patches) : fig.patches[i].freq = fig.max_count
        /\ \A i \in 1..Len(fig.patches) :
            LET r == fig.patches[i]
            IN  /\ r.freq = TypeCount(fig, i)
                /\ 1 <= r.freq /\ r.freq <= fig.max_count
                /\ r.alpha.coef = ALPHA_MAX
                /\ r.alpha.arg = RNeg(RMul(EXP_COEFF, Frac(r.freq, fig.max_count)))
                /\ ~RLess(r.alpha.arg, RNeg(EXP_COEFF)) /\ RLess(r.alpha.arg, Num(0))
                /\ r.linewidth.max_of[1] = LW_MIN
                /\ r.linewidth.max_of[2] = [ coef |-> LW_MAX, arg |-> r.alpha.arg ]
                /\ r.freq = fig.max_count => r.alpha.arg = RNeg(EXP_COEFF)

\* C8 witness: a figure with a type at the maximum, 4, and a type below it
C8_Witness ==
    /\ Overlay /\ fig # NoFigure /\ fig.max_count = 4
    /\ \E i \in 1..Len(fig.patches) : fig.patches[i].freq = 2

BagOf(seq) ==
    [ x \in { seq[i] : i \in 1..Len(seq) } |->
        Cardinality({ i \in 1..Len(seq) : seq[i] = x }) ]

Perms(n) == { p \in [ 1..n -> 1..n ] : \A i, j \in 1..n : i # j => p[i] # p[j] }

KeptCenturies(cp) == { cp[i].century : i \in 1..Len(cp) }

OrientationSet == { Orientations[i] : i \in 1..Len(Orientations) }

\* The page entries the overlay script keeps: of a document with a century,
\* with a two-element wh without zero (or none) and a zone with a two-element
\* xy (or none) and a wh of two positive numbers.
KeptZone(z) ==
    /\ "xy" \in DOMAIN z => Len(z.xy) = 2
    /\ "wh" \in DOMAIN z /\ Len(z.wh) = 2 /\ z.wh[1] > 0 /\ z.wh[2] > 0

KeptPage(pg) ==
    /\ "wh" \in DOMAIN pg => Len(pg.wh) = 2 /\ pg.wh[1] # 0 /\ pg.wh[2] # 0
    /\ \E i \in 1..Len(pg.zones) : KeptZone(pg.zones[i])

StoredPages(files) ==
    Flatten([ i \in 1..Len(Dated(files)) |-> SelectSeq(Dated(files)[i].files, KeptPage) ])

\* C10: after the file loop, for every order of the same files, each metric
\* has the same bag of points and each (century, orientation) the same bag
\* of pages; every stored page is under the orientation of its wh and under
\* no other.
C10_OrderIndependent ==
    (idx = Len(all_files) /\ pc = "loop") =>
        \A p \in Perms(Len(all_files)) :
            LET other == [ i \in 1..Len(all_files) |-> all_files[p[i]] ]
            IN  /\ Trend =>
                    \A m \in MetricSet :
                        BagOf(Data[m]) = BagOf(TrendRun(EmptyData, other)[m])
                /\ Overlay =>
                    LET cp == OverlayRun(<< >>, other)
                    IN  /\ KeptCenturies(cp) = KeptCenturies(century_pages)
                        /\ \A c \in KeptCenturies(cp) : \A o \in OrientationSet :
                              /\ BagOf(PagesOf(cp, c, o)) = BagOf(PagesOf(century_pages, c, o))
                              /\ \A k \in 1..Len(PagesOf(century_pages, c, o)) :
                                    LET wh == PagesOf(century_pages, c, o)[k].page_wh
                                    IN  (o = "landscape") <=> (wh[1] > wh[2])
                        /\ Len(Flatten([ i \in 1..Len(century_pages) |->
                              century_pages[i].portrait \o century_pages[i].landscape ]))
                           = Len(StoredPages(all_files))

\* C10 witness: two files that yield different points of one century, or
\* pages of different groups, have been consumed
C10_Witness ==
    /\ idx = Len(all_files) /\ pc = "loop" /\ Len(all_files) = 2
    /\ all_files[1] # all_files[2]
    /\ \/ Trend /\ Len(data_main) = 2 /\ data_main[1] # data_main[2]
       \/ Overlay /\ Len(century_pages) = 2

====
